---- MODULE Spec2Model ----
(***************************************************************************)
(* Digitraffic Home Assistant integration: the traffic-message refresh     *)
(* coordinator (coordinator.py), the per-message sensor reconciliation     *)
(* (sensor.py) and the entry lifecycle / options-update handler             *)
(* (__init__.py).                                                           *)
(*                                                                         *)
(* Strings that the code formats and parses (unique ids, situation ids)    *)
(* are sequences of tokens; a token stands for a run of characters that    *)
(* contains no "_" and is not split further ("msg", "digitraffic", "A1").  *)
(* Python None is NoneVal, a value x is Some(x).                            *)
(***************************************************************************)
EXTENDS Integers, Sequences, FiniteSets, TLC

\* ---------------------------------------------------------------- bounds
\* Number of poll cycles (first refresh, timer-driven, on-demand) that
\* complete in one behaviour.
MaxFetches == 2
\* The cameras an entry's configuration can list.
MaxCameras == 2

\* ------------------------------------------------------------ small sets
Entries == {"e1", "e2"}

NoneVal == [some |-> FALSE, v |-> <<>>]
Some(x) == [some |-> TRUE, v |-> x]

\* A municipality that is absent from a point (dict.get -> None).
NoMuni == "<none>"

\* Situation ids as token sequences; <<>> is a missing or empty situationId.
SidA1 == <<"A1">>
SidA2 == <<"A2">>
SidMsgA1 == <<"msg", "_", "A1">>
SidMissing == <<>>

Ann(p, s) == [primary |-> p, secondary |-> s]
\* A feature with properties.situationType given, and one of type ROAD_WORK.
FeatureOfType(sid, type, anns) ==
  [situationId |-> sid, situationType |-> type, announcements |-> anns]
Feature(sid, anns) == FeatureOfType(sid, "ROAD_WORK", anns)

\* The features the API can return: A1 lies in Helsinki, A2 in Espoo, the
\* third has "_msg_" follow the unique id's prefix and lies in Helsinki by
\* the secondary point of its second announcement, the fourth has no
\* situationId.
Features ==
  { Feature(SidA1, <<Ann("Helsinki", NoMuni)>>),
    Feature(SidA2, <<Ann("Espoo", NoMuni)>>),
    Feature(SidMsgA1, <<Ann("Espoo", NoMuni), Ann(NoMuni, "Helsinki")>>),
    Feature(SidMissing, <<Ann("Helsinki", "Helsinki")>>) }

\* An announcement that is not an object (a JSON null in the announcements
\* list): ann.get raises AttributeError.
NotADict == Ann("<null>", "<null>")

\* Features lists with such an announcement: A1 followed by an A2 that has
\* nothing but the null, and A1 with the null behind its Helsinki
\* announcement.
MalformedLists ==
  { <<Feature(SidA1, <<Ann("Helsinki", NoMuni)>>), Feature(SidA2, <<NotADict>>)>>,
    <<Feature(SidA1, <<Ann("Helsinki", NoMuni), NotADict>>)>> }

\* A1 with its content changed: another situation type, and two
\* announcements that both lie in Helsinki.
UpdatedLists ==
  { <<FeatureOfType(SidA1, "TRAFFIC_ANNOUNCEMENT",
                    <<Ann("Espoo", "Helsinki"), Ann("Helsinki", NoMuni)>>)>> }

\* The features lists of a response: none, one of the features, A1 followed
\* by one of the features (A1 twice included), A2 followed by A1, the
\* malformed lists and the updated A1.
FeatureLists ==
  {<<>>} \cup {<<f>> : f \in Features}
  \cup {<<Feature(SidA1, <<Ann("Helsinki", NoMuni)>>), g>> : g \in Features}
  \cup { <<Feature(SidA2, <<Ann("Espoo", NoMuni)>>),
           Feature(SidA1, <<Ann("Helsinki", NoMuni)>>)>> }
  \cup MalformedLists \cup UpdatedLists

\* What one HTTP exchange can produce: an error raised by the fetcher
\* (transport error or raise_for_status), a JSON document that is not an
\* object (data.get raises), or a JSON object with or without "features".
Responses ==
  { [kind |-> "error", hasFeatures |-> FALSE, features |-> <<>>],
    [kind |-> "nodict", hasFeatures |-> FALSE, features |-> <<>>],
    [kind |-> "json", hasFeatures |-> FALSE, features |-> <<>>] }
  \cup { [kind |-> "json", hasFeatures |-> TRUE, features |-> fl] : fl \in FeatureLists }

\* The values an entry's effective configuration (options over data) takes.
MunicipalityChoices == { {}, {"Helsinki"} }
SituationTypeChoices == { NoneVal, Some(<<>>), Some(<<"ROAD_WORK">>) }
OptionValues ==
  { [municipalities |-> m, situation_types |-> t] :
      m \in MunicipalityChoices, t \in SituationTypeChoices }

\* --------------------------------------------------------------- strings
StartsWithAt(s, sep, i) ==
  /\ i + Len(sep) - 1 <= Len(s)
  /\ SubSeq(s, i, i + Len(sep) - 1) = sep

\* sep in s
Contains(s, sep) == \E i \in 1..Len(s) : StartsWithAt(s, sep, i)

\* s.split(sep): the parts between the non-overlapping occurrences of sep,
\* found left to right.
RECURSIVE Split(_, _)
Split(s, sep) ==
  IF Contains(s, sep)
  THEN LET i == CHOOSE k \in 1..Len(s) :
                  /\ StartsWithAt(s, sep, k)
                  /\ \A j \in 1..(k - 1) : ~StartsWithAt(s, sep, j)
       IN  <<SubSeq(s, 1, i - 1)>> \o Split(SubSeq(s, i + Len(sep), Len(s)), sep)
  ELSE <<s>>

Range(s) == {s[i] : i \in 1..Len(s)}

\* f"digitraffic_{situation_id}"
_attr_unique_id(situation_id) == <<"digitraffic", "_">> \o situation_id

\* "_msg_"
MsgSeparator == <<"_", "msg", "_">>

\* ------------------------------------------------------------- the fetcher
\* Mutant of fetch_active_messages: the test is `is not None`, so an empty
\* list is sent as well.
fetch_active_messages_not_none(situation_types) ==
  [ inactiveHours |-> "0",
    includeAreaGeometry |-> "false",
    situationType |-> IF situation_types.some
                      THEN Some(situation_types.v)
                      ELSE NoneVal ]

\* DigitrafficApiClient.fetch_active_messages: the query parameters of the
\* one GET it issues.  situationType is sent only for a non-empty list.
fetch_active_messages(situation_types) ==
  [ inactiveHours |-> "0",
    includeAreaGeometry |-> "false",
    situationType |-> IF situation_types.some /\ situation_types.v # <<>>
                      THEN Some(situation_types.v)
                      ELSE NoneVal ]

\* Mutant of session_get_calls: the GET is issued again after an error.
session_get_calls_retry(resp) == IF resp.kind = "error" THEN 2 ELSE 1

\* The number of session.get calls one call of fetch_active_messages makes,
\* by the outcome resp of the exchange: the one GET of its body, which is
\* in no loop and which raise_for_status leaves by raising.
session_get_calls(resp) == 1

\* --------------------------------------------------------- the coordinator
\* primary_muni in self.municipalities or secondary_muni in self.municipalities
AnnouncementMatches(ann, municipalities) ==
  \/ ann.primary \in municipalities
  \/ ann.secondary \in municipalities

\* Mutant of FeatureKept: the append is not guarded by the municipality test.
FeatureKeptAnyAnnouncement(feature, municipalities) ==
  Len(feature.announcements) > 0

\* The inner loop over a feature's announcements: appended (once, break) when
\* some announcement matches.
FeatureKept(feature, municipalities) ==
  \E i \in 1..Len(feature.announcements) :
     AnnouncementMatches(feature.announcements[i], municipalities)

\* Mutant of filtered_features: the inner loop has no break, a feature is
\* appended once for every announcement that matches.
RECURSIVE filtered_features_no_break(_, _)
filtered_features_no_break(features, municipalities) ==
  IF features = <<>> THEN <<>>
  ELSE [k \in 1..Cardinality({j \in 1..Len(Head(features).announcements) :
                                 AnnouncementMatches(Head(features).announcements[j],
                                                     municipalities)}) |-> Head(features)]
       \o filtered_features_no_break(Tail(features), municipalities)

\* The outer loop: filtered_features, in the order of features.
filtered_features(features, municipalities) ==
  SelectSeq(features, LAMBDA f : FeatureKept(f, municipalities))

\* The filter loop raises: it reaches an announcement that is not an object,
\* no earlier announcement of the same feature having matched (break).
FilterRaises(features, municipalities) ==
  \E i \in 1..Len(features) :
    \E j \in 1..Len(features[i].announcements) :
      /\ features[i].announcements[j] = NotADict
      /\ \A k \in 1..(j - 1) :
           ~AnnouncementMatches(features[i].announcements[k], municipalities)

\* The outcomes of _async_update_data: a returned list, or an exception of
\* type `raised` whose __cause__ is of type `cause`.
Returned(features, t) ==
  [ok |-> TRUE, data |-> features, last_update_time |-> t, raised |-> "none", cause |-> "none"]
Raised(type, cause, t) ==
  [ok |-> FALSE, data |-> <<>>, last_update_time |-> t, raised |-> type, cause |-> cause]

\* Mutant of _async_update_data: the early return for an empty municipality
\* list is missing.
_async_update_data_always_filters(resp, municipalities, last_update_time, now) ==
  IF resp.kind = "error"
  THEN Raised("UpdateFailed", "ClientError", last_update_time)
  ELSE IF resp.kind = "nodict"
  THEN Raised("UpdateFailed", "AttributeError", now)
  ELSE LET features == IF resp.hasFeatures THEN resp.features ELSE <<>>
       IN  IF FilterRaises(features, municipalities)
           THEN Raised("UpdateFailed", "AttributeError", now)
           ELSE Returned(filtered_features(features, municipalities), now)

\* Mutant of _async_update_data: an error is swallowed and an empty list
\* returned instead of raising UpdateFailed.
_async_update_data_empty_on_error(resp, municipalities, last_update_time, now) ==
  IF resp.kind = "error"
  THEN Returned(<<>>, last_update_time)
  ELSE IF resp.kind = "nodict"
  THEN Returned(<<>>, now)
  ELSE LET features == IF resp.hasFeatures THEN resp.features ELSE <<>>
       IN  IF municipalities = {}
           THEN Returned(features, now)
           ELSE IF FilterRaises(features, municipalities)
           THEN Returned(<<>>, now)
           ELSE Returned(filtered_features(features, municipalities), now)

\* Mutant of _async_update_data: the except clause names the fetcher's
\* error only, so an error of the extraction or of the filter loop escapes
\* as it is.
_async_update_data_narrow_except(resp, municipalities, last_update_time, now) ==
  IF resp.kind = "error"
  THEN Raised("UpdateFailed", "ClientError", last_update_time)
  ELSE IF resp.kind = "nodict"
  THEN Raised("AttributeError", "none", now)
  ELSE LET features == IF resp.hasFeatures THEN resp.features ELSE <<>>
       IN  IF municipalities = {}
           THEN Returned(features, now)
           ELSE IF FilterRaises(features, municipalities)
           THEN Raised("AttributeError", "none", now)
           ELSE Returned(filtered_features(features, municipalities), now)

\* _async_update_data on the response of the fetch, with the coordinator's
\* municipalities at the time the response is processed.  ok = FALSE is an
\* exception leaving the method; every Exception of the try block leaves it
\* as UpdateFailed.  last_update_time is written as soon as the fetch
\* returns, before the features are extracted.
_async_update_data(resp, municipalities, last_update_time, now) ==
  IF resp.kind = "error"
  THEN Raised("UpdateFailed", "ClientError", last_update_time)
  ELSE IF resp.kind = "nodict"
  THEN Raised("UpdateFailed", "AttributeError", now)
  ELSE LET features == IF resp.hasFeatures THEN resp.features ELSE <<>>
       IN  IF municipalities = {}
           THEN Returned(features, now)
           ELSE IF FilterRaises(features, municipalities)
           THEN Raised("UpdateFailed", "AttributeError", now)
           ELSE Returned(filtered_features(features, municipalities), now)

\* Mutant of PublishedData: the returned list is appended to the list
\* published before instead of replacing it.
PublishedDataMerged(result, data) ==
  IF result.ok
  THEN Some((IF data.some THEN data.v ELSE <<>>) \o result.data)
  ELSE data

\* DataUpdateCoordinator._async_refresh: the published data is replaced by the
\* result of a successful cycle and kept on UpdateFailed.
PublishedData(result, data) == IF result.ok THEN Some(result.data) ELSE data

\* update_config: a field is replaced only when a value (not None) is given.
update_config_municipalities(old, municipalities) ==
  IF municipalities.some THEN municipalities.v ELSE old

\* Mutant of update_config_situation_types: the `is not None` test is
\* missing, so None replaces the configured list.
update_config_situation_types_unguarded(old, situation_types) == situation_types

update_config_situation_types(old, situation_types) ==
  IF situation_types.some THEN situation_types ELSE old

\* update_config on a coordinator (its configuration, its published data,
\* its timestamp and its fetches in flight): the two assignments, nothing
\* else.
update_config(coordinator, municipalities, situation_types) ==
  [coordinator EXCEPT
     !.municipalities = update_config_municipalities(@, municipalities),
     !.situation_types = update_config_situation_types(@, situation_types)]

\* ------------------------------------------------------ the entity registry
\* A registry entry of the sensor domain: its unique id, the config entry
\* it belongs to, and whether an entity object is currently loaded for it.
RegEntry(uid, e, live) == [unique_id |-> uid, config_entry_id |-> e, live |-> live]

\* er.async_entries_for_config_entry(entity_reg, entry.entry_id)
async_entries_for_config_entry(reg, e) == {r \in reg : r.config_entry_id = e}

\* entity_reg.async_remove(entity_id), for the entries with these unique ids
async_remove(reg, uids) == {r \in reg : r.unique_id \notin uids}

\* async_add_entities for one entity: the platform registers the unique id
\* (taking over an entry that has no loaded entity) and refuses an entity
\* whose unique id already has a loaded entity.
async_add_entity(reg, e, uid) ==
  IF \E r \in reg : r.unique_id = uid
  THEN LET r == CHOOSE x \in reg : x.unique_id = uid
       IN  IF r.live THEN reg
           ELSE (reg \ {r}) \cup {RegEntry(uid, e, TRUE)}
  ELSE reg \cup {RegEntry(uid, e, TRUE)}

RECURSIVE async_add_entities(_, _, _)
async_add_entities(reg, e, uids) ==
  IF uids = <<>> THEN reg
  ELSE async_add_entities(async_add_entity(reg, e, Head(uids)), e, Tail(uids))

\* The coordinator has listeners (loaded entities of this entry): only then
\* does the framework keep its refresh timer scheduled.
HasListeners(reg, e) == \E r \in reg : r.config_entry_id = e /\ r.live

\* ---------------------------------------------------------- the reconciler
\* messages = coordinator.data or []
messages(data) == IF data.some THEN data.v ELSE <<>>

\* current_situation_ids: the truthy situationIds of the messages.
current_situation_ids(msgs) ==
  {msgs[i].situationId : i \in 1..Len(msgs)} \ {<<>>}

\* existing_sensors: situation id (as parsed from the unique id) -> entry,
\* for the entries of this config entry whose unique id holds "_msg_" and
\* splits into exactly two parts.
existing_sensors(reg, e) ==
  { [situation_id |-> Split(r.unique_id, MsgSeparator)[2], unique_id |-> r.unique_id] :
      r \in { x \in async_entries_for_config_entry(reg, e) :
                /\ Contains(x.unique_id, MsgSeparator)
                /\ Len(Split(x.unique_id, MsgSeparator)) = 2 } }

ExistingKeys(reg, e) == {p.situation_id : p \in existing_sensors(reg, e)}

\* removed_ids = set(existing_sensors.keys()) - current_situation_ids
removed_ids(reg, e, msgs) == ExistingKeys(reg, e) \ current_situation_ids(msgs)

\* new_ids = current_situation_ids - set(existing_sensors.keys())
new_ids(reg, e, msgs) == current_situation_ids(msgs) \ ExistingKeys(reg, e)

\* The situation ids of new_entities, in creation order (one per message
\* whose situationId is in new_ids).
new_entities(reg, e, msgs) ==
  LET ids == new_ids(reg, e, msgs)
      kept == SelectSeq(msgs, LAMBDA m : m.situationId \in ids)
  IN  [i \in 1..Len(kept) |-> kept[i].situationId]

\* icon_map.get(situation_type, "mdi:traffic-cone")
icon_map(situation_type) ==
  CASE situation_type = "TRAFFIC_ANNOUNCEMENT" -> "mdi:alert-circle"
    [] situation_type = "ROAD_WORK" -> "mdi:road-variant"
    [] situation_type = "WEIGHT_RESTRICTION" -> "mdi:weight"
    [] situation_type = "EXEMPTED_TRANSPORT" -> "mdi:truck-cargo-container"
    [] OTHER -> "mdi:traffic-cone"

\* DigitrafficTrafficMessageSensor.__init__: what the sensor object keeps of
\* its arguments, the situation id, the unique id and the icon chosen from
\* the situation type of the message it is built from.
DigitrafficTrafficMessageSensor(e, message_data, situation_id) ==
  [ unique_id |-> _attr_unique_id(situation_id),
    config_entry_id |-> e,
    situation_id |-> situation_id,
    icon |-> icon_map(message_data.situationType) ]

\* new_entities as sensor objects, in creation order.
new_sensors(reg, e, msgs) ==
  LET ids == new_ids(reg, e, msgs)
      kept == SelectSeq(msgs, LAMBDA m : m.situationId \in ids)
  IN  [i \in 1..Len(kept) |->
         DigitrafficTrafficMessageSensor(e, kept[i], kept[i].situationId)]

\* The entity objects loaded in Home Assistant after a pass: those of the
\* removed registry entries are gone, and of the sensors passed to
\* async_add_entities the platform takes each whose unique id has no loaded
\* entity (the first of several with the same unique id).
EntitiesAfter(entities, removed, sensors) ==
  LET kept == {x \in entities : x.unique_id \notin removed}
  IN  kept \cup
      { sensors[i] : i \in { k \in 1..Len(sensors) :
            /\ \A x \in kept : x.unique_id # sensors[k].unique_id
            /\ \A j \in 1..(k - 1) : sensors[j].unique_id # sensors[k].unique_id } }

\* Mutant of _message_data: the situation id is not compared, the first
\* message is returned.
_message_data_any(data, situation_id) ==
  LET msgs == IF data.some THEN data.v ELSE <<>>
  IN  IF msgs = <<>> THEN NoneVal ELSE Some(msgs[1])

\* DigitrafficTrafficMessageSensor._message_data: the first message of the
\* coordinator's data with the sensor's situation id, or None.
_message_data(data, situation_id) ==
  LET msgs == IF data.some THEN data.v ELSE <<>>
      hits == {i \in 1..Len(msgs) : msgs[i].situationId = situation_id}
  IN  IF hits = {} THEN NoneVal
      ELSE Some(msgs[CHOOSE i \in hits : \A j \in hits : i <= j])

\* available: the message is not None.
available(data, situation_id) == _message_data(data, situation_id).some

\* Mutant of native_value: the state does not follow the message.
native_value_constant(data, situation_id) == "active"

\* native_value
native_value(data, situation_id) ==
  IF _message_data(data, situation_id).some THEN "active" ELSE "inactive"

\* extra_state_attributes, its situation_type and municipalities: {} when
\* there is no message; an announcement that is not an object makes the
\* loops over the announcements raise.
extra_state_attributes(data, situation_id) ==
  LET msg == _message_data(data, situation_id)
  IN  IF ~msg.some
      THEN [raised |-> FALSE, empty |-> TRUE, situation_type |-> "none",
            municipalities |-> <<>>]
      ELSE IF \E i \in 1..Len(msg.v.announcements) : msg.v.announcements[i] = NotADict
      THEN [raised |-> TRUE, empty |-> FALSE, situation_type |-> "none",
            municipalities |-> <<>>]
      ELSE LET first == msg.v.announcements[1]
               primary == IF first.primary # NoMuni THEN <<first.primary>> ELSE <<>>
               secondary == IF first.secondary # NoMuni /\ first.secondary # first.primary
                            THEN <<first.secondary>> ELSE <<>>
           IN  [raised |-> FALSE, empty |-> FALSE,
                situation_type |-> msg.v.situationType,
                municipalities |-> IF msg.v.announcements = <<>> THEN <<>>
                                   ELSE primary \o secondary]

\* One pass of _async_add_remove_entities: the registry and the
\* active_message_sensors keys after it, the unique ids it removed and the
\* situation ids and unique ids of the entities it passed to
\* async_add_entities.
_async_add_remove_entities(reg, e, data, active) ==
  LET msgs == messages(data)
      gone == removed_ids(reg, e, msgs)
      removed_uids == {p.unique_id : p \in {q \in existing_sensors(reg, e) :
                                               q.situation_id \in gone}}
      created == new_entities(reg, e, msgs)
      new_uids == [i \in 1..Len(created) |-> _attr_unique_id(created[i])]
  IN  [ registry |-> async_add_entities(async_remove(reg, removed_uids), e, new_uids),
        active |-> (active \ gone) \cup Range(created),
        removed |-> removed_uids,
        added |-> created,
        unique_ids |-> new_uids ]

\* The unique ids whose removal the registry may refuse with an exception.
FailingRemovals == {_attr_unique_id(SidMsgA1)}

\* The ways a pass can meet such refusals: none, or any of the unique ids
\* it is about to remove.  clean is the pass as it runs when none raises.
RemoveFailures(clean) == SUBSET (clean.removed \cap FailingRemovals)

\* One pass of _async_add_remove_entities in which entity_reg.async_remove
\* raises for the unique ids in failing.  The removal loop has no try: the
\* first of them it reaches ends the pass, after the removals that came
\* before it in the set's iteration order (any part of the others) and
\* before new_entities is built.
AsyncAddRemoveOutcomes(reg, e, active, clean, failing) ==
  IF clean.removed \cap failing = {}
  THEN { [ registry |-> clean.registry, active |-> clean.active,
           removed |-> clean.removed, added |-> clean.added,
           unique_ids |-> clean.unique_ids, failed |-> {}, raised |-> FALSE ] }
  ELSE { [ registry |-> async_remove(reg, done),
           active |-> active \ { p.situation_id : p \in { q \in existing_sensors(reg, e) :
                                                           q.unique_id \in done } },
           removed |-> done, added |-> <<>>, unique_ids |-> <<>>,
           failed |-> {first}, raised |-> TRUE ] :
           first \in clean.removed \cap failing,
           done \in SUBSET (clean.removed \ failing) }

\* --------------------------------------------------------------- the camera
\* The presets that have a camera entity, and the bodies an image URL serves.
Presets == {"p1", "p2"}
Images == {"jpegA", "jpegB"}

\* What one image request can meet: a status (with the body read on 200), a
\* 200 whose body cannot be read (response.read raises ClientPayloadError, a
\* ClientError), or session.get raising ClientError or OSError.
ImageResponses ==
  { [kind |-> "status", status |-> 200, body |-> b] : b \in Images }
  \cup { [kind |-> "status", status |-> st, body |-> "none"] : st \in {403, 500} }
  \cup { [kind |-> k, status |-> 0, body |-> "none"] : k \in {"ClientError", "OSError"} }
  \cup { [kind |-> "ClientError", status |-> 200, body |-> "none"] }

\* Mutant of async_camera_image: a failed request drops the cached image.
async_camera_image_forgets(camera, resp, now) ==
  IF resp.kind = "status" /\ resp.status = 200
  THEN [ last_image |-> Some(resp.body), last_updated |-> now,
         returned |-> Some(resp.body), raised |-> FALSE ]
  ELSE [ last_image |-> NoneVal, last_updated |-> camera.last_updated,
         returned |-> NoneVal, raised |-> FALSE ]

\* Mutant of async_camera_image: the time of the request is recorded before
\* the status is looked at.
async_camera_image_stamps_first(camera, resp, now) ==
  IF resp.kind = "status" /\ resp.status = 200
  THEN [ last_image |-> Some(resp.body), last_updated |-> now,
         returned |-> Some(resp.body), raised |-> FALSE ]
  ELSE [ last_image |-> camera.last_image, last_updated |-> now,
         returned |-> camera.last_image, raised |-> FALSE ]

\* DigitrafficWeathercamCamera.async_camera_image on a camera's cache: a 200
\* stores and returns the body read; another status is logged, ClientError
\* and OSError are caught and logged, and the cached image is returned.
async_camera_image(camera, resp, now) ==
  IF resp.kind = "status" /\ resp.status = 200
  THEN [ last_image |-> Some(resp.body), last_updated |-> now,
         returned |-> Some(resp.body), raised |-> FALSE ]
  ELSE [ last_image |-> camera.last_image, last_updated |-> camera.last_updated,
         returned |-> camera.last_image, raised |-> FALSE ]

\* The weathercam config entry.
Weathercam == "w1"

\* f"{entry.entry_id}_wc_{self._preset_id}"
camera_unique_id(e, preset_id) == <<e, "_", "wc", "_", preset_id>>

\* A preset id that a configuration can still hold after the catalogue
\* dropped it, and the preset ids a configuration can hold.
DroppedPreset == "p0"
ConfigurablePresets == Presets \cup {DroppedPreset}

\* The static catalogue's presets of the camera, in catalogue order.
all_presets == <<"p1", "p2">>

\* _get_expected_preset_ids: the presets selected in the cameras of
\* entry.data["cameras"].
_get_expected_preset_ids(cameras_config) ==
  UNION {cameras_config[i].presets : i \in 1..Len(cameras_config)}

\* unique_id.replace("digitraffic_", "", 1) on a unique id that starts with
\* "digitraffic_"
PresetIdOf(unique_id) == SubSeq(unique_id, 3, Len(unique_id))

\* _cleanup_removed_entities: of the entry's camera entries whose unique id
\* starts with "digitraffic_", those whose remainder is not an expected
\* preset id are removed from the registry.
_cleanup_removed_entities(reg, e, expected_preset_ids) ==
  {r \in reg :
     ~( /\ r.config_entry_id = e
        /\ StartsWithAt(r.unique_id, <<"digitraffic", "_">>, 1)
        /\ \A p \in expected_preset_ids : PresetIdOf(r.unique_id) # <<p>> )}

\* _create_camera_entities: for every camera of the configuration, in order,
\* one camera object per preset of the catalogue that the camera selects; the
\* preset ids of the objects, in creation order.
RECURSIVE _create_camera_entities(_)
_create_camera_entities(cameras_config) ==
  IF cameras_config = <<>> THEN <<>>
  ELSE SelectSeq(all_presets, LAMBDA p : p \in Head(cameras_config).presets)
       \o _create_camera_entities(Tail(cameras_config))

RECURSIVE SetToSeq(_)
SetToSeq(S) ==
  IF S = {} THEN <<>>
  ELSE LET x == CHOOSE y \in S : TRUE IN <<x>> \o SetToSeq(S \ {x})

\* ------------------------------------------------------------------ state
VARIABLES
  phase,                  \* entry -> "new" (not set up) | "loaded"
  options,                \* entry -> the entry's effective configuration
  municipalities,         \* entry -> coordinator.municipalities
  situation_types,        \* entry -> coordinator.situation_types
  data,                   \* entry -> coordinator.data (NoneVal before a success)
  last_update_time,       \* entry -> coordinator.last_update_time (0 is None)
  timer,                  \* entry -> request of the timer-driven cycle in flight
  handler,                \* entry -> request of the options handler's refresh in flight
  registry,               \* the entity registry's sensor entries
  entities,               \* the sensor objects loaded in Home Assistant
  versions,               \* entry -> coordinator configurations in force since the
                          \*          timer-driven cycle in flight started
  active_message_sensors, \* entry -> keys of data["active_message_sensors"]
  lastCycle,              \* entry -> response and municipalities of the last completed cycle
  lastPass,               \* entry -> what the last reconcile pass removed and added
  pending,                \* entry -> a publish has not been followed by a reconcile pass
  requests,               \* entry -> GETs issued to the traffic-message endpoint
  last_image,             \* preset -> camera._last_image (NoneVal is None)
  last_updated,           \* preset -> camera._last_updated (0 is None)
  lastGood,               \* preset -> bytes of the most recent request that read a 200
  lastImage,              \* preset -> response and outcome of the last image request
  cameras,                \* entry.data["cameras"] of the weathercam entry
  created_cameras,        \* preset ids of the camera objects the last setup created
  camera_phase,           \* "none" (no weathercam entry) | "new" | "loaded"
  camera_registry,        \* the entity registry's camera entries
  config_entries,         \* the integration's config entries, as the flows read and write them
  flows,                  \* flow id -> the position and fields of a config flow in progress
  now                     \* the clock: completed HTTP exchanges so far

\* The state of the traffic-message services and of the cameras.
serviceVars ==
  << phase, options, municipalities, situation_types, data, last_update_time,
     timer, handler, registry, active_message_sensors, lastCycle, lastPass,
     pending, requests, entities, versions >>
cameraVars ==
  << last_image, last_updated, lastGood, lastImage, cameras, created_cameras,
     camera_phase, camera_registry >>

flowVars == << config_entries, flows >>

vars == << serviceVars, cameraVars, flowVars, now >>

\* The config flows that can be in progress at once, and a flow that is not
\* in progress: DigitrafficConfigFlow.__init__ sets every field to None.
FlowIds == {"f1", "f2"}
NoFlow == [step |-> "none", result |-> "none", reason |-> "none", _traffic_config |-> NoneVal]

NoCycle == [done |-> FALSE, resp |-> [kind |-> "error", hasFeatures |-> FALSE, features |-> <<>>],
            municipalities |-> {}, ok |-> FALSE, raised |-> "none", cause |-> "none",
            bit |-> FALSE]

\* The record of a completed cycle: its response, the municipalities it was
\* processed with, and how _async_update_data ended.
CycleRecord(e, resp, munis, result) ==
  [done |-> TRUE, resp |-> resp, municipalities |-> munis,
   ok |-> result.ok, raised |-> result.raised, cause |-> result.cause,
   bit |-> ~lastCycle[e].bit]

NoImage == [bit |-> FALSE, resp |-> [kind |-> "status", status |-> 0, body |-> "none"],
            returned |-> NoneVal, raised |-> FALSE]

NoPass == [bit |-> FALSE, removed |-> {}, added |-> <<>>, unique_ids |-> <<>>,
           failed |-> {}, raised |-> FALSE, calls |-> <<>>]

\* The clock is capped: no cycle completes once it reads MaxFetches.
CanComplete == now < MaxFetches

\* The configuration of an entry that has neither key: the defaults of the
\* .get calls in _async_setup_traffic_messages.
DefaultOptions == [municipalities |-> {}, situation_types |-> NoneVal]

\* The state after the config entries in `configured` were created: no
\* entry is set up, the registry is empty.
InitFor(configured) ==
  /\ phase = [e \in Entries |-> "new"]
  /\ options \in {o \in [Entries -> OptionValues] :
                    \A e \in Entries \ configured : o[e] = DefaultOptions}
  /\ municipalities = [e \in Entries |-> {}]
  /\ situation_types = [e \in Entries |-> NoneVal]
  /\ data = [e \in Entries |-> NoneVal]
  /\ last_update_time = [e \in Entries |-> 0]
  /\ timer = [e \in Entries |-> NoneVal]
  /\ handler = [e \in Entries |-> NoneVal]
  /\ registry = {}
  /\ entities = {}
  /\ versions = [e \in Entries |-> {}]
  /\ active_message_sensors = [e \in Entries |-> {}]
  /\ lastCycle = [e \in Entries |-> NoCycle]
  /\ lastPass = [e \in Entries |-> NoPass]
  /\ pending = [e \in Entries |-> FALSE]
  /\ requests = [e \in Entries |-> 0]
  /\ last_image = [p \in Presets |-> NoneVal]
  /\ last_updated = [p \in Presets |-> 0]
  /\ lastGood = [p \in Presets |-> NoneVal]
  /\ lastImage = [p \in Presets |-> NoImage]
  /\ config_entries = <<>>
  /\ flows = [f \in FlowIds |-> NoFlow]
  /\ now = 0

\* No weathercam entry is configured.
NoWeathercam ==
  /\ cameras = <<>>
  /\ created_cameras = <<>>
  /\ camera_phase = "none"
  /\ camera_registry = {}

Init == InitFor({"e1"}) /\ NoWeathercam

\* The coordinator's configuration.
Configuration(municipalities_, situation_types_) ==
  [municipalities |-> municipalities_, situation_types |-> situation_types_]

\* The coordinator of a loaded entry.
Coordinator(e) ==
  [ municipalities |-> municipalities[e],
    situation_types |-> situation_types[e],
    data |-> data[e],
    last_update_time |-> last_update_time[e],
    in_flight |-> {k \in {"timer", "handler"} :
                     IF k = "timer" THEN timer[e].some ELSE handler[e].some} ]

\* Mutant of async_calls: every new entity is added by a call of its own,
\* before the removals.
async_calls_unbatched(pass) ==
  [i \in 1..Len(pass.added) |-> [op |-> "async_add_entities", keys |-> <<pass.added[i]>>]]
  \o [i \in 1..Cardinality(pass.removed \cup pass.failed) |->
        [op |-> "async_remove",
         keys |-> <<Split(SetToSeq(pass.removed \cup pass.failed)[i], MsgSeparator)[2]>>]]

\* The calls a pass issues, in order: entity_reg.async_remove for every
\* removed key (the call that raised included), then, when the pass got that
\* far and new_entities is not empty, one async_add_entities(new_entities).
async_calls(pass) ==
  [i \in 1..Cardinality(pass.removed \cup pass.failed) |->
     [op |-> "async_remove",
      keys |-> <<Split(SetToSeq(pass.removed \cup pass.failed)[i], MsgSeparator)[2]>>]]
  \o IF ~pass.raised /\ pass.added # <<>>
     THEN <<[op |-> "async_add_entities", keys |-> pass.added]>>
     ELSE <<>>

\* The record of a reconcile pass.
PassRecord(e, pass) ==
  [bit |-> ~lastPass[e].bit, removed |-> pass.removed, added |-> pass.added,
   unique_ids |-> pass.unique_ids, failed |-> pass.failed, raised |-> pass.raised,
   calls |-> async_calls(pass)]

\* ---------------------------------------------------------------- actions
\* Mutant of _async_setup_traffic_messages: the entry's data is stored and the
\* platforms are set up whether or not the first refresh succeeded.
_async_setup_traffic_messages_unchecked(e, resp) ==
  /\ phase[e] = "new"
  /\ CanComplete
  /\ now' = now + 1
  /\ \E result \in {_async_update_data(resp, options[e].municipalities, 0, now + 1)} :
     \E published \in {IF result.ok THEN Some(result.data) ELSE NoneVal} :
     \E clean \in {_async_add_remove_entities(registry, e, published, {})} :
     \E failing \in RemoveFailures(clean) :
     \E pass \in AsyncAddRemoveOutcomes(registry, e, {}, clean, failing) :
       /\ lastCycle' = [lastCycle EXCEPT ![e] =
            CycleRecord(e, resp, options[e].municipalities, result)]
       /\ phase' = [phase EXCEPT ![e] = "loaded"]
       /\ municipalities' = [municipalities EXCEPT ![e] = options[e].municipalities]
       /\ situation_types' = [situation_types EXCEPT ![e] = options[e].situation_types]
       /\ data' = [data EXCEPT ![e] = published]
       /\ last_update_time' = [last_update_time EXCEPT ![e] = result.last_update_time]
       /\ registry' = pass.registry
       /\ entities' = EntitiesAfter(entities, pass.removed,
            IF pass.raised THEN <<>>
            ELSE new_sensors(registry, e, messages(published)))
       /\ active_message_sensors' = [active_message_sensors EXCEPT ![e] = pass.active]
       /\ lastPass' = [lastPass EXCEPT ![e] = PassRecord(e, pass)]
  /\ requests' = [requests EXCEPT ![e] = @ + session_get_calls(resp)]
  /\ UNCHANGED << options, timer, handler, pending, versions >>
  /\ UNCHANGED << cameraVars, flowVars >>

\* async_setup_entry -> _async_setup_traffic_messages: the coordinator is
\* built from the entry's configuration and refreshed once; a failed first
\* refresh aborts the setup (nothing is stored), a successful one stores the
\* coordinator and sets up the sensor platform, whose setup runs the first
\* reconcile pass on an empty active_message_sensors.  A pass that raises
\* fails the platform's setup only: the entry stays loaded.
_async_setup_traffic_messages(e, resp) ==
  /\ phase[e] = "new"
  /\ CanComplete
  /\ now' = now + 1
  /\ \E result \in {_async_update_data(resp, options[e].municipalities, 0, now + 1)} :
       /\ lastCycle' = [lastCycle EXCEPT ![e] =
            CycleRecord(e, resp, options[e].municipalities, result)]
       /\ IF result.ok
          THEN \E clean \in {_async_add_remove_entities(registry, e, Some(result.data), {})} :
               \E failing \in RemoveFailures(clean) :
               \E pass \in AsyncAddRemoveOutcomes(registry, e, {}, clean, failing) :
                 /\ phase' = [phase EXCEPT ![e] = "loaded"]
                 /\ municipalities' = [municipalities EXCEPT ![e] = options[e].municipalities]
                 /\ situation_types' = [situation_types EXCEPT ![e] = options[e].situation_types]
                 /\ data' = [data EXCEPT ![e] = Some(result.data)]
                 /\ last_update_time' = [last_update_time EXCEPT ![e] = result.last_update_time]
                 /\ registry' = pass.registry
                 /\ entities' = EntitiesAfter(entities, pass.removed,
                      IF pass.raised THEN <<>>
                      ELSE new_sensors(registry, e, result.data))
                 /\ active_message_sensors' = [active_message_sensors EXCEPT ![e] = pass.active]
                 /\ lastPass' = [lastPass EXCEPT ![e] = PassRecord(e, pass)]
          ELSE UNCHANGED << phase, municipalities, situation_types, data,
                            last_update_time, registry, entities,
                            active_message_sensors, lastPass >>
  /\ requests' = [requests EXCEPT ![e] = @ + session_get_calls(resp)]
  /\ UNCHANGED << options, timer, handler, pending, versions >>
  /\ UNCHANGED << cameraVars, flowVars >>

\* The refresh timer fires: _async_update_data starts and issues the fetch
\* with the situation types configured now.  The timer is scheduled only
\* while the coordinator has listeners, and is cancelled while an on-demand
\* refresh runs.
TimerStart(e) ==
  /\ phase[e] = "loaded"
  /\ ~timer[e].some
  /\ ~handler[e].some
  /\ HasListeners(registry, e)
  /\ timer' = [timer EXCEPT ![e] = Some(fetch_active_messages(situation_types[e]))]
  /\ versions' = [versions EXCEPT ![e] =
       {Configuration(municipalities[e], situation_types[e])}]
  /\ UNCHANGED << phase, options, municipalities, situation_types, data, last_update_time,
                  handler, registry, entities, active_message_sensors, lastCycle, lastPass,
                  pending, requests, now >>
  /\ UNCHANGED << cameraVars, flowVars >>

\* The timer-driven cycle completes: the response is filtered with the
\* municipalities configured now and published.  No reconcile pass follows:
\* the pass is not registered as a coordinator listener.
TimerFinish(e, resp) ==
  /\ phase[e] = "loaded"
  /\ timer[e].some
  /\ CanComplete
  /\ \E result \in {_async_update_data(resp, municipalities[e], last_update_time[e], now + 1)} :
       /\ data' = [data EXCEPT ![e] = PublishedData(result, data[e])]
       /\ last_update_time' = [last_update_time EXCEPT ![e] = result.last_update_time]
       /\ lastCycle' = [lastCycle EXCEPT ![e] = CycleRecord(e, resp, municipalities[e], result)]
  /\ now' = now + 1
  /\ timer' = [timer EXCEPT ![e] = NoneVal]
  /\ versions' = [versions EXCEPT ![e] = {}]
  /\ pending' = [pending EXCEPT ![e] = TRUE]
  /\ requests' = [requests EXCEPT ![e] = @ + session_get_calls(resp)]
  /\ UNCHANGED << phase, options, municipalities, situation_types, handler, registry,
                  entities, active_message_sensors, lastPass >>
  /\ UNCHANGED << cameraVars, flowVars >>

\* _async_update_options up to its await: the entry's options changed; the
\* handler passes them to update_config and starts async_refresh.
_async_update_options(e, new) ==
  /\ phase[e] = "loaded"
  /\ ~handler[e].some
  /\ options' = [options EXCEPT ![e] = new]
  /\ \E updated \in {update_config(Coordinator(e), Some(new.municipalities),
                                    new.situation_types)} :
       /\ municipalities' = [municipalities EXCEPT ![e] = updated.municipalities]
       /\ situation_types' = [situation_types EXCEPT ![e] = updated.situation_types]
       /\ handler' = [handler EXCEPT ![e] =
            Some(fetch_active_messages(updated.situation_types))]
       /\ versions' = [versions EXCEPT ![e] =
            IF timer[e].some
            THEN @ \cup {Configuration(updated.municipalities, updated.situation_types)}
            ELSE @]
  /\ UNCHANGED << phase, data, last_update_time, timer, registry, entities,
                  active_message_sensors, lastCycle, lastPass, pending, requests, now >>
  /\ UNCHANGED << cameraVars, flowVars >>

\* _async_update_options after its await: the refresh completes (published
\* on success, kept on failure) and the stored add_entities_callback runs a
\* reconcile pass; a pass that raises ends the handler with its exception.
_async_update_options_resumed(e, resp) ==
  /\ phase[e] = "loaded"
  /\ handler[e].some
  /\ CanComplete
  /\ \E result \in {_async_update_data(resp, municipalities[e], last_update_time[e], now + 1)} :
     \E published \in {PublishedData(result, data[e])} :
     \E clean \in {_async_add_remove_entities(registry, e, published,
                                               active_message_sensors[e])} :
     \E failing \in RemoveFailures(clean) :
     \E pass \in AsyncAddRemoveOutcomes(registry, e, active_message_sensors[e], clean,
                                        failing) :
       /\ data' = [data EXCEPT ![e] = published]
       /\ last_update_time' = [last_update_time EXCEPT ![e] = result.last_update_time]
       /\ registry' = pass.registry
       /\ entities' = EntitiesAfter(entities, pass.removed,
            IF pass.raised THEN <<>>
            ELSE new_sensors(registry, e, messages(published)))
       /\ active_message_sensors' = [active_message_sensors EXCEPT ![e] = pass.active]
       /\ lastPass' = [lastPass EXCEPT ![e] = PassRecord(e, pass)]
       /\ lastCycle' = [lastCycle EXCEPT ![e] = CycleRecord(e, resp, municipalities[e], result)]
  /\ now' = now + 1
  /\ handler' = [handler EXCEPT ![e] = NoneVal]
  /\ pending' = [pending EXCEPT ![e] = FALSE]
  /\ requests' = [requests EXCEPT ![e] = @ + session_get_calls(resp)]
  /\ UNCHANGED << phase, options, municipalities, situation_types, timer, versions >>
  /\ UNCHANGED << cameraVars, flowVars >>

\* async_unload_entry: the platforms are unloaded (the entry's entity objects
\* go, their registry entries stay) and the entry's data, with its
\* coordinator, is dropped.
async_unload_entry(e) ==
  /\ phase[e] = "loaded"
  /\ ~timer[e].some
  /\ ~handler[e].some
  /\ phase' = [phase EXCEPT ![e] = "new"]
  /\ registry' = {IF r.config_entry_id = e THEN RegEntry(r.unique_id, e, FALSE) ELSE r :
                    r \in registry}
  /\ entities' = {x \in entities : x.config_entry_id # e}
  /\ municipalities' = [municipalities EXCEPT ![e] = {}]
  /\ situation_types' = [situation_types EXCEPT ![e] = NoneVal]
  /\ data' = [data EXCEPT ![e] = NoneVal]
  /\ last_update_time' = [last_update_time EXCEPT ![e] = 0]
  /\ active_message_sensors' = [active_message_sensors EXCEPT ![e] = {}]
  /\ pending' = [pending EXCEPT ![e] = FALSE]
  /\ UNCHANGED << options, timer, handler, lastCycle, lastPass, requests, versions, now >>
  /\ UNCHANGED << cameraVars, flowVars >>

\* camera.async_setup_entry of the weathercam entry: nothing is done when no
\* camera is configured or the catalogue file is missing; otherwise the
\* registry is cleaned up and a camera entity is created and added for every
\* selected preset.  A new camera object has no cached image.
camera_async_setup_entry(data_file_exists) ==
  /\ camera_phase = "new"
  /\ camera_phase' = "loaded"
  /\ \E created \in {IF cameras = <<>> \/ ~data_file_exists THEN <<>>
                     ELSE _create_camera_entities(cameras)} :
       /\ created_cameras' = created
       /\ camera_registry' =
            IF cameras = <<>> \/ ~data_file_exists THEN camera_registry
            ELSE async_add_entities(
                   _cleanup_removed_entities(camera_registry, Weathercam,
                                             _get_expected_preset_ids(cameras)),
                   Weathercam,
                   [i \in 1..Len(created) |-> camera_unique_id(Weathercam, created[i])])
       /\ last_image' = [p \in Presets |->
            IF p \in Range(created) THEN NoneVal ELSE last_image[p]]
       /\ last_updated' = [p \in Presets |->
            IF p \in Range(created) THEN 0 ELSE last_updated[p]]
       /\ lastGood' = [p \in Presets |->
            IF p \in Range(created) THEN NoneVal ELSE lastGood[p]]
  /\ UNCHANGED << cameras, lastImage, now >>
  /\ UNCHANGED << serviceVars, flowVars >>

\* The entry is reloaded after its data changed: its platforms are unloaded
\* (the camera objects go, their registry entries stay) and set up again.
ReloadWeathercam(cameras_config) ==
  /\ camera_phase = "loaded"
  /\ cameras_config # cameras
  /\ cameras' = cameras_config
  /\ camera_phase' = "new"
  /\ camera_registry' = {RegEntry(r.unique_id, r.config_entry_id, FALSE) :
                           r \in camera_registry}
  /\ UNCHANGED << created_cameras, last_image, last_updated, lastGood, lastImage, now >>
  /\ UNCHANGED << serviceVars, flowVars >>

\* DigitrafficOptionsFlow._save_weathercam_selection: every camera keeps its
\* presets that are still selected, a camera left with none is dropped, and
\* the update listener reloads the entry.
_save_weathercam_selection(selected_presets) ==
  ReloadWeathercam(
    SelectSeq([i \in 1..Len(cameras) |->
                 [presets |-> cameras[i].presets \cap selected_presets]],
              LAMBDA camera : camera.presets # {}))

\* async_step_reconfigure_weathercam_presets: the chosen camera, with the
\* presets chosen for it, is appended to the entry's cameras (whether or not
\* the camera is configured already) and the entry is reloaded.
async_step_reconfigure_weathercam_presets(presets) ==
  /\ Len(cameras) < MaxCameras
  /\ ReloadWeathercam(Append(cameras, [presets |-> presets]))

\* An image request of a preset's camera entity completes with resp.
CameraImage(p, resp) ==
  /\ \E r \in camera_registry : r.unique_id = camera_unique_id(Weathercam, p) /\ r.live
  /\ CanComplete
  /\ \E camera \in {[last_image |-> last_image[p], last_updated |-> last_updated[p]]} :
     \E result \in {async_camera_image(camera, resp, now + 1)} :
       /\ last_image' = [last_image EXCEPT ![p] = result.last_image]
       /\ last_updated' = [last_updated EXCEPT ![p] = result.last_updated]
       /\ lastImage' = [lastImage EXCEPT ![p] =
            [bit |-> ~lastImage[p].bit, resp |-> resp,
             returned |-> result.returned, raised |-> result.raised]]
  /\ lastGood' = [lastGood EXCEPT ![p] =
       IF resp.kind = "status" /\ resp.status = 200 THEN Some(resp.body) ELSE @]
  /\ now' = now + 1
  /\ UNCHANGED << cameras, created_cameras, camera_phase, camera_registry >>
  /\ UNCHANGED << serviceVars, flowVars >>

\* --------------------------------------------------------- the config flows
ENTITY_TYPE_TRAFFIC_MESSAGES == "traffic_messages"
ENTITY_TYPE_WEATHERCAM == "weathercam"

\* The entry ids Home Assistant hands out, in the order of creation.
ConfigEntryIds == <<"c1", "c2">>

\* The names a user gives a service, and the selections of the two
\* multi-select fields of the traffic-message forms (a selection holds no
\* value twice; the second and third differ in order only).
ServiceNames == {"Traffic Messages", "Weathercams"}
TrafficInputs ==
  { [municipalities |-> <<>>, situation_types |-> <<"ROAD_WORK", "TRAFFIC_ANNOUNCEMENT">>],
    [municipalities |-> <<>>, situation_types |-> <<"TRAFFIC_ANNOUNCEMENT", "ROAD_WORK">>],
    [municipalities |-> <<"Helsinki">>, situation_types |-> <<"ROAD_WORK", "TRAFFIC_ANNOUNCEMENT">>] }

\* sorted(list) of a list of distinct strings: the strings of the model in
\* the order Python compares them.
Alphabetical == <<"Espoo", "Helsinki", "ROAD_WORK", "TRAFFIC_ANNOUNCEMENT">>
sorted(list) == SelectSeq(Alphabetical, LAMBDA x : x \in Range(list))

\* entry.options.get(key, entry.data.get(key)), sorted, of a traffic-message
\* entry: its options are {} (NoneVal) until an options flow saved them.
existing_municipalities(entry) ==
  sorted(IF entry.options.some THEN entry.options.v.municipalities
         ELSE entry.data.municipalities)
existing_situation_types(entry) ==
  sorted(IF entry.options.some THEN entry.options.v.situation_types
         ELSE entry.data.situation_types)

\* The loop over self._async_current_entries() in async_step_traffic_messages:
\* a traffic-message entry has the configuration of user_input.
duplicate_config(entries, user_input) ==
  \E i \in 1..Len(entries) :
    /\ entries[i].data.entity_type = ENTITY_TYPE_TRAFFIC_MESSAGES
    /\ sorted(user_input.municipalities) = existing_municipalities(entries[i])
    /\ sorted(user_input.situation_types) = existing_situation_types(entries[i])

\* The loop in async_step_traffic_messages_name: an entry has the title.
duplicate_name(entries, service_name) ==
  \E i \in 1..Len(entries) : entries[i].title = service_name

\* existing_entries of async_step_weathercam.
existing_entries(entries) ==
  SelectSeq(entries, LAMBDA entry : entry.data.entity_type = ENTITY_TYPE_WEATHERCAM)

\* async_create_entry: Home Assistant adds an entry with new id, the title
\* and the data, and empty options.
async_create_entry(entries, title, data_) ==
  Append(entries, [entry_id |-> ConfigEntryIds[Len(entries) + 1], title |-> title,
                   data |-> data_, options |-> NoneVal])

\* The flow's state after a step returned.
FlowAt(step, result, reason, traffic_config) ==
  [step |-> step, result |-> result, reason |-> reason, _traffic_config |-> traffic_config]

\* async_step_user: a flow starts and shows the menu.
async_step_user(f) ==
  /\ flows[f].step = "none"
  /\ flows' = [flows EXCEPT ![f] = FlowAt("user", "menu", "none", NoneVal)]
  /\ UNCHANGED << config_entries, serviceVars, cameraVars, now >>

\* async_step_traffic_messages: called without input from the menu it shows
\* the form; with the form's input it shows the form again with
\* duplicate_config when a traffic-message entry has that configuration, and
\* otherwise keeps the input and shows the naming form.
async_step_traffic_messages(f, user_input) ==
  /\ \/ flows[f].step = "user" /\ ~user_input.some
     \/ flows[f].step = "traffic_messages" /\ user_input.some
  /\ flows' = [flows EXCEPT ![f] =
       IF ~user_input.some
       THEN FlowAt("traffic_messages", "form", "none", NoneVal)
       ELSE IF duplicate_config(config_entries, user_input.v)
       THEN FlowAt("traffic_messages", "form", "duplicate_config", NoneVal)
       ELSE FlowAt("traffic_messages_name", "form", "none", user_input)]
  /\ UNCHANGED << config_entries, serviceVars, cameraVars, now >>

\* async_step_traffic_messages_name with the naming form's input: the form
\* again with duplicate_name when an entry has that title, otherwise the
\* entry is created from the kept input.
async_step_traffic_messages_name(f, service_name) ==
  /\ flows[f].step = "traffic_messages_name"
  /\ IF duplicate_name(config_entries, service_name)
     THEN /\ flows' = [flows EXCEPT ![f] =
                FlowAt("traffic_messages_name", "form", "duplicate_name", flows[f]._traffic_config)]
          /\ UNCHANGED config_entries
     ELSE /\ Len(config_entries) < Len(ConfigEntryIds)
          /\ config_entries' =
               async_create_entry(config_entries, service_name,
                 [entity_type |-> ENTITY_TYPE_TRAFFIC_MESSAGES,
                  municipalities |-> flows[f]._traffic_config.v.municipalities,
                  situation_types |-> flows[f]._traffic_config.v.situation_types])
          /\ flows' = [flows EXCEPT ![f] = FlowAt("none", "create_entry", "none", NoneVal)]
  /\ UNCHANGED << serviceVars, cameraVars, now >>

\* async_step_weathercam: aborts when a weathercam entry exists; otherwise
\* it shows the municipality form (no input) or keeps the municipality and
\* shows the camera form of async_step_weathercam_select.
async_step_weathercam(f, user_input) ==
  /\ \/ flows[f].step = "user" /\ ~user_input.some
     \/ flows[f].step = "weathercam" /\ user_input.some
  /\ flows' = [flows EXCEPT ![f] =
       IF existing_entries(config_entries) # <<>>
       THEN FlowAt("none", "abort", "single_instance_allowed", NoneVal)
       ELSE IF user_input.some
       THEN FlowAt("weathercam_select", "form", "none", NoneVal)
       ELSE FlowAt("weathercam", "form", "none", NoneVal)]
  /\ UNCHANGED << config_entries, serviceVars, cameraVars, now >>

\* async_step_weathercam_select with the chosen camera: the presets form of
\* async_step_weathercam_presets.
async_step_weathercam_select(f) ==
  /\ flows[f].step = "weathercam_select"
  /\ flows' = [flows EXCEPT ![f] = FlowAt("weathercam_presets", "form", "none", NoneVal)]
  /\ UNCHANGED << config_entries, serviceVars, cameraVars, now >>

\* async_step_weathercam_presets with the chosen presets: the entry is
\* created with the title "Weathercams" and the one camera.
async_step_weathercam_presets(f, selected_presets) ==
  /\ flows[f].step = "weathercam_presets"
  /\ Len(config_entries) < Len(ConfigEntryIds)
  /\ config_entries' =
       async_create_entry(config_entries, "Weathercams",
         [entity_type |-> ENTITY_TYPE_WEATHERCAM,
          cameras |-> <<[presets |-> selected_presets]>>])
  /\ flows' = [flows EXCEPT ![f] = FlowAt("none", "create_entry", "none", NoneVal)]
  /\ UNCHANGED << serviceVars, cameraVars, now >>

\* _async_reconfigure_traffic_messages with the form's input, for the i-th
\* entry: async_update_entry replaces its title and its data.
_async_reconfigure_traffic_messages(i, user_input) ==
  /\ i \in 1..Len(config_entries)
  /\ config_entries[i].data.entity_type = ENTITY_TYPE_TRAFFIC_MESSAGES
  /\ config_entries' = [config_entries EXCEPT ![i] =
       [@ EXCEPT !.title = "Traffic Messages",
                 !.data = [entity_type |-> ENTITY_TYPE_TRAFFIC_MESSAGES,
                           municipalities |-> user_input.municipalities,
                           situation_types |-> user_input.situation_types]]]
  /\ UNCHANGED << flows, serviceVars, cameraVars, now >>

\* DigitrafficOptionsFlow.async_step_init with the form's input, for the
\* i-th entry (a traffic-message one): the input becomes entry.options.
async_step_init(i, user_input) ==
  /\ i \in 1..Len(config_entries)
  /\ config_entries[i].data.entity_type = ENTITY_TYPE_TRAFFIC_MESSAGES
  /\ config_entries' = [config_entries EXCEPT ![i].options = Some(user_input)]
  /\ UNCHANGED << flows, serviceVars, cameraVars, now >>

\* One configured service.
Next ==
  \/ \E resp \in Responses : _async_setup_traffic_messages("e1", resp)
  \/ TimerStart("e1")
  \/ \E resp \in Responses : TimerFinish("e1", resp)
  \/ \E new \in OptionValues : _async_update_options("e1", new)
  \/ \E resp \in Responses : _async_update_options_resumed("e1", resp)
  \/ async_unload_entry("e1")

Spec == Init /\ [][Next]_vars

\* Two configured services, on a part of the inputs: the fetch fails, or
\* returns no message, A1, or A1 and A2; the options change the
\* municipalities only.
ServiceResponses ==
  {r \in Responses :
     \/ r.kind = "error"
     \/ /\ r.kind = "json"
        /\ r.hasFeatures
        /\ r.features \in { <<>>,
                            <<Feature(SidA1, <<Ann("Helsinki", NoMuni)>>)>>,
                            <<Feature(SidA1, <<Ann("Helsinki", NoMuni)>>),
                              Feature(SidA2, <<Ann("Espoo", NoMuni)>>)>> }}

ServiceOptions == {o \in OptionValues : o.situation_types = NoneVal}

NextServices ==
  \/ \E e \in Entries, resp \in ServiceResponses : _async_setup_traffic_messages(e, resp)
  \/ \E e \in Entries : TimerStart(e)
  \/ \E e \in Entries, resp \in ServiceResponses : TimerFinish(e, resp)
  \/ \E e \in Entries, new \in ServiceOptions : _async_update_options(e, new)
  \/ \E e \in Entries, resp \in ServiceResponses : _async_update_options_resumed(e, resp)
  \/ \E e \in Entries : async_unload_entry(e)

InitServices ==
  /\ InitFor(Entries)
  /\ NoWeathercam
  /\ \A e \in Entries : options[e] \in ServiceOptions

SpecServices == InitServices /\ [][NextServices]_vars

\* The cameras alone: image requests of the presets' camera entities, with no
\* traffic-message service set up.
NextCamera ==
  \/ \E data_file_exists \in BOOLEAN : camera_async_setup_entry(data_file_exists)
  \/ \E selected_presets \in SUBSET ConfigurablePresets :
       _save_weathercam_selection(selected_presets)
  \/ \E presets \in SUBSET Presets \ {{}} :
       async_step_reconfigure_weathercam_presets(presets)
  \/ \E p \in Presets, resp \in ImageResponses : CameraImage(p, resp)

\* The weathercam entry was created by the config flow with the presets
\* selected there; it is not set up yet.
InitCamera ==
  /\ InitFor({})
  /\ cameras \in {<<[presets |-> presets]>> : presets \in SUBSET ConfigurablePresets \ {{}}}
  /\ created_cameras = <<>>
  /\ camera_phase = "new"
  /\ camera_registry = {}

SpecCamera == InitCamera /\ [][NextCamera]_vars

\* The config flows: two flows in progress at once, the reconfigure flow and
\* the options flow of the traffic-message entries.
NextFlows ==
  \/ \E f \in FlowIds : async_step_user(f)
  \/ \E f \in FlowIds, user_input \in {NoneVal} \cup {Some(i) : i \in TrafficInputs} :
       async_step_traffic_messages(f, user_input)
  \/ \E f \in FlowIds, service_name \in ServiceNames :
       async_step_traffic_messages_name(f, service_name)
  \/ \E f \in FlowIds, user_input \in {NoneVal, Some("Helsinki")} :
       async_step_weathercam(f, user_input)
  \/ \E f \in FlowIds : async_step_weathercam_select(f)
  \/ \E f \in FlowIds, selected_presets \in SUBSET Presets \ {{}} :
       async_step_weathercam_presets(f, selected_presets)
  \/ \E i \in 1..Len(ConfigEntryIds), user_input \in TrafficInputs :
       _async_reconfigure_traffic_messages(i, user_input)
  \/ \E i \in 1..Len(ConfigEntryIds), user_input \in TrafficInputs :
       async_step_init(i, user_input)

\* No config entry exists and no flow is in progress.
InitFlows == InitFor({}) /\ NoWeathercam

SpecFlows == InitFlows /\ [][NextFlows]_vars

\* ----------------------------------------------------------------- claims
\* The keyed situation ids in the model.
SituationIds == {SidA1, SidA2, SidMsgA1}

\* The situation id a sensor's unique id was written for.
CreatedFor(unique_id) == SubSeq(unique_id, Len(_attr_unique_id(<<>>)) + 1, Len(unique_id))

\* The situation ids of the sensor entities registered for an entry.
EntityKeys(e) == {CreatedFor(r.unique_id) : r \in async_entries_for_config_entry(registry, e)}

\* No cycle of the entry is in progress (a reconcile pass never is: it runs
\* within one step).
Quiescent(e) == phase[e] = "loaded" /\ ~timer[e].some /\ ~handler[e].some

\* The step runs a reconcile pass of the entry.
PassStep(e) == lastPass'[e].bit # lastPass[e].bit

\* The step starts a poll cycle of the entry.
CycleStarts(e) ==
  \/ ~timer[e].some /\ timer'[e].some
  \/ ~handler[e].some /\ handler'[e].some

\* The step completes a poll cycle of the loaded entry.
CycleCompletes(e) ==
  \/ timer[e].some /\ ~timer'[e].some
  \/ handler[e].some /\ ~handler'[e].some

\* C1: whenever no cycle of a loaded entry is in progress, the situation ids
\* of the sensor entities registered for the entry are exactly the keyed
\* situation ids of the published data that pass the current municipality
\* filter.
C1_EntitiesMirrorData ==
  \A e \in Entries :
    Quiescent(e) =>
      EntityKeys(e) =
        { m.situationId :
            m \in { x \in Range(messages(data[e])) :
                      /\ x.situationId # <<>>
                      /\ \/ municipalities[e] = {}
                         \/ \E i \in 1..Len(x.announcements) :
                              \/ x.announcements[i].primary \in municipalities[e]
                              \/ x.announcements[i].secondary \in municipalities[e] } }

\* C2: a poll cycle of an entry starts only when every publish before it
\* has been followed by a reconcile pass.
C2_ReconcileAfterEveryPublish ==
  [][\A e \in Entries : CycleStarts(e) => ~pending[e]]_vars

\* C3: a reconcile pass removes exactly the entry's sensor entities whose
\* situation id is not among the situation ids of the current data.
C3_RemovesExactlyStale ==
  [][\A e \in Entries :
       PassStep(e) =>
         lastPass'[e].removed =
           { r.unique_id :
               r \in { x \in async_entries_for_config_entry(registry, e) :
                         CreatedFor(x.unique_id) \notin
                           {m.situationId : m \in Range(messages(data'[e]))} } }]_vars

\* C4: a reconcile pass adds an entity for exactly the current messages
\* (with a situation id) whose situation id has no sensor entity registered
\* for the entry.
C4_AddsExactlyNew ==
  [][\A e \in Entries :
       PassStep(e) =>
         LET fresh == SelectSeq(messages(data'[e]),
                                LAMBDA m : /\ m.situationId # <<>>
                                           /\ m.situationId \notin EntityKeys(e))
         IN  /\ Len(lastPass'[e].added) = Len(fresh)
             /\ \A i \in 1..Len(fresh) : lastPass'[e].added[i] = fresh[i].situationId]_vars

\* C5: in every state of a loaded entry, a reconcile pass followed by a
\* second pass on the same data has nothing to add and nothing to remove in
\* the second pass.
C5_ReconcileIdempotent ==
  \A e \in Entries :
    phase[e] = "loaded" =>
      LET first == _async_add_remove_entities(registry, e, data[e], active_message_sensors[e])
          second == _async_add_remove_entities(first.registry, e, data[e], first.active)
      IN  second.added = <<>> /\ second.removed = {}

\* C6: when a situation id is in the data before and after a successful
\* cycle and has a sensor entity registered for the entry, the reconcile pass
\* that follows the cycle neither adds nor removes an entity for it.
C6_PresentKeyUntouched ==
  [][\A e \in Entries, sid \in SituationIds :
       ( /\ PassStep(e)
         /\ phase[e] = "loaded"
         /\ lastCycle'[e].resp.kind = "json"
         /\ sid \in {m.situationId : m \in Range(messages(data[e]))}
         /\ sid \in {m.situationId : m \in Range(messages(data'[e]))}
         /\ sid \in EntityKeys(e) )
       => /\ \A i \in 1..Len(lastPass'[e].added) : lastPass'[e].added[i] # sid
          /\ \A u \in lastPass'[e].removed : CreatedFor(u) # sid]_vars

\* C7: the unique ids that two different entries give to entities of the
\* same situation id differ, and the reconciler recovers from a unique id
\* the situation id it was written for.
C7_UniqueIdsNamespaced ==
  /\ \A e1 \in Entries : \A e2 \in Entries \ {e1} :
       \A i \in 1..Len(lastPass[e1].added), j \in 1..Len(lastPass[e2].added) :
         lastPass[e1].added[i] = lastPass[e2].added[j]
           => lastPass[e1].unique_ids[i] # lastPass[e2].unique_ids[j]
  /\ \A e \in Entries :
       \A i \in 1..Len(lastPass[e].added) :
         ExistingKeys({RegEntry(lastPass[e].unique_ids[i], e, TRUE)}, e)
           = {lastPass[e].added[i]}

\* C8: after a successful cycle under a non-empty municipality set, every
\* published feature has an announcement whose primary or secondary point
\* lies in a municipality of that set.
C8_FilteredFeaturesMatch ==
  \A e \in Entries :
    ( /\ lastCycle[e].done
      /\ lastCycle[e].ok
      /\ lastCycle[e].municipalities # {}
      /\ data[e].some )
    => \A i \in 1..Len(data[e].v) :
         \E j \in 1..Len(data[e].v[i].announcements) :
           \/ data[e].v[i].announcements[j].primary \in lastCycle[e].municipalities
           \/ data[e].v[i].announcements[j].secondary \in lastCycle[e].municipalities

\* A filtered cycle dropped some of the response's features and kept others.
C8_Witness ==
  \E e \in Entries :
    /\ phase[e] = "loaded"
    /\ lastCycle[e].ok
    /\ lastCycle[e].municipalities # {}
    /\ data[e].some
    /\ Len(data[e].v) > 0
    /\ Len(data[e].v) < Len(lastCycle[e].resp.features)

\* C9: after a successful cycle under an empty municipality set, the
\* published data is the response's features list as it came, and the empty
\* list when the response has no features key.
C9_UnfilteredPublishedAsIs ==
  \A e \in Entries :
    ( /\ phase[e] = "loaded"
      /\ lastCycle[e].done
      /\ lastCycle[e].resp.kind = "json"
      /\ lastCycle[e].municipalities = {} )
    => /\ data[e].some
       /\ lastCycle[e].resp.hasFeatures => data[e].v = lastCycle[e].resp.features
       /\ ~lastCycle[e].resp.hasFeatures => data[e].v = <<>>

\* An unfiltered cycle published two features, one of which no announcement
\* places in Helsinki.
C9_Witness ==
  \E e \in Entries :
    /\ phase[e] = "loaded"
    /\ lastCycle[e].resp.kind = "json"
    /\ lastCycle[e].municipalities = {}
    /\ data[e].some
    /\ Len(data[e].v) > 1
    /\ \E i \in 1..Len(data[e].v) :
         \A j \in 1..Len(data[e].v[i].announcements) :
           /\ data[e].v[i].announcements[j].primary # "Helsinki"
           /\ data[e].v[i].announcements[j].secondary # "Helsinki"

\* Something raises in the cycle c: the fetch, the reading of the document,
\* or the filter loop on an announcement that is not an object.
SomethingRaises(c) ==
  \/ c.resp.kind # "json"
  \/ /\ c.municipalities # {}
     /\ \E i \in 1..Len(c.resp.features) :
          LET anns == c.resp.features[i].announcements
          IN  \E j \in 1..Len(anns) :
                /\ anns[j] = NotADict
                /\ \A k \in 1..(j - 1) :
                     /\ anns[k].primary \notin c.municipalities
                     /\ anns[k].secondary \notin c.municipalities

\* C10: a cycle in which something raises (the fetch, the reading of the
\* document, the filter loop) leaves the published data as it was.
C10_FailedCycleKeepsData ==
  [][\A e \in Entries :
       (CycleCompletes(e) /\ SomethingRaises(lastCycle'[e])) => data'[e] = data[e]]_vars

\* A cycle failed and the data published before it, a non-empty list, is
\* still published.
C10_Witness ==
  \E e \in Entries :
    /\ phase[e] = "loaded"
    /\ lastCycle[e].resp.kind # "json"
    /\ data[e].some
    /\ data[e].v # <<>>

\* C11: whatever raises in a cycle (the fetch, the extraction of the
\* features, the filter loop on an announcement that is not an object)
\* leaves _async_update_data as UpdateFailed with the original error as its
\* cause; the method ends with a returned list or with UpdateFailed, never
\* with another exception, and returns nothing when it raises.
C11_AllErrorsWrapped ==
  \A e \in Entries :
    lastCycle[e].done =>
      LET c == lastCycle[e]
          fetchFails == c.resp.kind = "error"
          extractFails == c.resp.kind = "nodict"
          filterFails ==
            /\ c.resp.kind = "json"
            /\ c.municipalities # {}
            /\ \E i \in 1..Len(c.resp.features) :
                 LET anns == c.resp.features[i].announcements
                 IN  \E j \in 1..Len(anns) :
                       /\ anns[j] = NotADict
                       /\ \A k \in 1..(j - 1) :
                            /\ anns[k].primary \notin c.municipalities
                            /\ anns[k].secondary \notin c.municipalities
      IN  /\ c.raised \in {"none", "UpdateFailed"}
          /\ c.ok <=> c.raised = "none"
          /\ fetchFails => c.raised = "UpdateFailed" /\ c.cause = "ClientError"
          /\ (extractFails \/ filterFails) =>
                c.raised = "UpdateFailed" /\ c.cause = "AttributeError"
          /\ ~(fetchFails \/ extractFails \/ filterFails) => c.ok

\* A cycle of a loaded entry failed in the filter loop, after the loop had
\* kept a feature, and the list published before it is still published.
C11_Witness ==
  \E e \in Entries :
    /\ phase[e] = "loaded"
    /\ lastCycle[e].resp.kind = "json"
    /\ Len(lastCycle[e].resp.features) = 2
    /\ lastCycle[e].raised = "UpdateFailed"
    /\ lastCycle[e].cause = "AttributeError"
    /\ data[e].some
    /\ data[e].v # <<>>

\* C12: a completed cycle of a loaded entry changes last_update_time
\* exactly when it ends in success.
C12_TimestampOnlyOnSuccess ==
  [][\A e \in Entries :
       CycleCompletes(e) =>
         ((last_update_time'[e] # last_update_time[e]) <=> lastCycle'[e].ok)]_vars

\* The arguments of update_config: None or a value, for each field.
UpdateConfigMunicipalities == {NoneVal} \cup {Some(m) : m \in MunicipalityChoices}
UpdateConfigSituationTypes == SituationTypeChoices

\* C13: on the coordinator of every loaded entry, update_config replaces
\* the municipalities when given a value and keeps them when given None,
\* the same for the situation types, and leaves the published data, the
\* timestamp and the fetches in flight as they are.
C13_UpdateConfigFrame ==
  \A e \in Entries :
    phase[e] = "loaded" =>
      \A m \in UpdateConfigMunicipalities, t \in UpdateConfigSituationTypes :
        LET after == update_config(Coordinator(e), m, t)
        IN  /\ after.municipalities = IF m = NoneVal THEN municipalities[e] ELSE m.v
            /\ after.situation_types = IF t = NoneVal THEN situation_types[e] ELSE t
            /\ after.data = data[e]
            /\ after.last_update_time = last_update_time[e]
            /\ after.in_flight = Coordinator(e).in_flight

\* The options handler has called update_config with situation types None
\* on a coordinator that has a list configured and data published; the list
\* is still configured and the refresh the handler started is in flight.
C13_Witness ==
  \E e \in Entries :
    /\ phase[e] = "loaded"
    /\ handler[e].some
    /\ options[e].situation_types = NoneVal
    /\ situation_types[e] = Some(<<"ROAD_WORK">>)
    /\ data[e].some
    /\ data[e].v # <<>>

\* C14: while an entry is loaded and its last cycle ended in success, every
\* published feature is a feature of that cycle's response.
C14_PublishedOnlyFromLastResponse ==
  \A e \in Entries :
    (phase[e] = "loaded" /\ lastCycle[e].done /\ lastCycle[e].ok) =>
      /\ data[e].some
      /\ \A i \in 1..Len(data[e].v) :
           \E j \in 1..Len(lastCycle[e].resp.features) :
             data[e].v[i] = lastCycle[e].resp.features[j]

\* A message that was published in this load of the entry (a sensor entity
\* was created for it) is absent from the non-empty list published by the
\* last, successful, cycle.
C14_Witness ==
  \E e \in Entries :
    /\ phase[e] = "loaded"
    /\ lastCycle[e].ok
    /\ data[e].some
    /\ data[e].v # <<>>
    /\ \E r \in registry :
         /\ r.config_entry_id = e
         /\ r.live
         /\ \A i \in 1..Len(data[e].v) :
              data[e].v[i].situationId # CreatedFor(r.unique_id)

\* C15: at most one fetch of an entry is in flight, and a cycle of the entry
\* starts only when none is.
C15_OneFetchInFlight ==
  \A e \in Entries : ~(timer[e].some /\ handler[e].some)

\* The step is a step of the entry: its setup, one of its cycles, its
\* options handler or its unload.
StepOf(e) ==
  \/ phase'[e] # phase[e]
  \/ options'[e] # options[e]
  \/ timer'[e] # timer[e]
  \/ handler'[e] # handler[e]
  \/ lastCycle'[e] # lastCycle[e]
  \/ lastPass'[e] # lastPass[e]

\* C16: a step of one entry (a poll, a config update, a reconcile pass)
\* leaves every other entry's published data, configuration, timestamp and
\* registered entities as they were.
C16_ServicesIndependent ==
  [][\A e \in Entries :
       ~StepOf(e) =>
         /\ data'[e] = data[e]
         /\ municipalities'[e] = municipalities[e]
         /\ situation_types'[e] = situation_types[e]
         /\ last_update_time'[e] = last_update_time[e]
         /\ async_entries_for_config_entry(registry', e)
              = async_entries_for_config_entry(registry, e)]_vars

CycleEnds(e) == lastCycle'[e].bit # lastCycle[e].bit

\* C18: a step that ends a cycle of an entry, whatever the outcome, adds
\* exactly one to the GETs issued for the entry, and no other step issues a
\* GET for it.
C18_OneRequestPerCycle ==
  [][\A e \in Entries :
       requests'[e] = requests[e] + (IF CycleEnds(e) THEN 1 ELSE 0)]_vars

\* Two cycles of an entry have ended, the first or the second in a fetch
\* error, and two GETs were issued.
C18_Witness ==
  \E e \in Entries :
    /\ phase[e] = "loaded"
    /\ lastCycle[e].done
    /\ lastCycle[e].resp.kind = "error"
    /\ requests[e] = 2

\* The request is the one the claim describes for these configured types.
RequestCarries(request, types) ==
  /\ request.inactiveHours = "0"
  /\ request.includeAreaGeometry = "false"
  /\ request.situationType.some <=> (types # NoneVal /\ types.v # <<>>)
  /\ request.situationType.some => request.situationType.v = types.v

\* C19: the request a cycle issues carries inactiveHours=0 and
\* includeAreaGeometry=false, and a situationType parameter, with the
\* values configured on the coordinator when the cycle starts, exactly when
\* that list is neither None nor empty.
C19_RequestUsesConfiguredTypes ==
  [][\A e \in Entries :
       /\ (~timer[e].some /\ timer'[e].some)
            => RequestCarries(timer'[e].v, situation_types'[e])
       /\ (~handler[e].some /\ handler'[e].some)
            => RequestCarries(handler'[e].v, situation_types'[e])]_vars

\* A timer-driven request carrying ROAD_WORK is in flight together with a
\* handler's request that, the list now being empty, carries no situationType.
C19_Witness ==
  \E e \in Entries :
    /\ timer[e].some
    /\ timer[e].v.situationType = Some(<<"ROAD_WORK">>)
    /\ handler[e].some
    /\ situation_types[e] = Some(<<>>)
    /\ handler[e].v.situationType = NoneVal

\* C20: a reconcile pass in which the registry refused the removal of a
\* stale entity still removes the other stale entities and adds the new
\* entities of the pass.
C20_RemoveFailureSkipped ==
  [][\A e \in Entries :
       (PassStep(e) /\ lastPass'[e].failed # {}) =>
         LET pass == _async_add_remove_entities(registry, e, data'[e],
                                                IF phase[e] = "loaded"
                                                THEN active_message_sensors[e] ELSE {})
         IN  /\ lastPass'[e].removed = pass.removed \ lastPass'[e].failed
             /\ lastPass'[e].added = pass.added]_vars

\* C21: the coordinator returns to Idle after every cycle, a failed one
\* included, and fetch errors never stop the polling: whenever a loaded
\* coordinator is idle after a failed cycle, its next poll is scheduled (the
\* timer can fire).
C21_PollingContinuesAfterFailure ==
  \A e \in Entries :
    ( /\ phase[e] = "loaded"
      /\ lastCycle[e].done
      /\ ~lastCycle[e].ok
      /\ ~timer[e].some
      /\ ~handler[e].some )
    => ENABLED TimerStart(e)

\* The sensor objects of loaded services, each with its coordinator's data.
LoadedSensors == {x \in entities : phase[x.config_entry_id] = "loaded"}

\* The positions in the published data of the messages with this situation id.
PositionsOf(e, situation_id) ==
  {i \in 1..Len(messages(data[e])) : messages(data[e])[i].situationId = situation_id}

\* The first message with this situation id in the published data.
CurrentMessage(e, situation_id) ==
  messages(data[e])[CHOOSE i \in PositionsOf(e, situation_id) :
                      \A j \in PositionsOf(e, situation_id) : i <= j]

\* C22 (as claimed): a per-message sensor caches no message content: what it
\* shows of its message, its state, its attributes and its icon, is at every
\* read that of the message with its situation id in the coordinator's
\* currently published data.
C22_NoContentCached ==
  \A x \in LoadedSensors :
    PositionsOf(x.config_entry_id, x.situation_id) # {}
    => /\ native_value(data[x.config_entry_id], x.situation_id) = "active"
       /\ x.icon = icon_map(CurrentMessage(x.config_entry_id, x.situation_id).situationType)

\* C22 (amended): apart from the icon, chosen once from the message the sensor
\* is built from, nothing is cached: at every read the state and the
\* attributes are computed from the first message with the sensor's situation
\* id in the currently published data (inactive and no attributes when there
\* is none).
C22_ReadsFollowCurrentData ==
  \A x \in LoadedSensors :
    LET e == x.config_entry_id
        attributes == extra_state_attributes(data[e], x.situation_id)
    IN  IF PositionsOf(e, x.situation_id) = {}
        THEN /\ native_value(data[e], x.situation_id) = "inactive"
             /\ attributes.empty
        ELSE LET m == CurrentMessage(e, x.situation_id)
             IN  /\ native_value(data[e], x.situation_id) = "active"
                 /\ ~attributes.empty
                 /\ \/ attributes.raised
                    \/ /\ attributes.situation_type = m.situationType
                       /\ Range(attributes.municipalities) =
                            {m.announcements[1].primary, m.announcements[1].secondary}
                            \ {NoMuni}

\* A sensor built from the road-work A1 reads, after a poll that published A1
\* as a traffic announcement between Espoo and Helsinki, the new content.
C22_Witness ==
  \E x \in LoadedSensors :
    /\ x.situation_id = SidA1
    /\ x.icon = icon_map("ROAD_WORK")
    /\ lastCycle[x.config_entry_id].ok
    /\ pending[x.config_entry_id]
    /\ extra_state_attributes(data[x.config_entry_id], SidA1)
         = [raised |-> FALSE, empty |-> FALSE, situation_type |-> "TRAFFIC_ANNOUNCEMENT",
            municipalities |-> <<"Espoo", "Helsinki">>]

\* C25: a per-message sensor is available exactly when a message with its
\* situation id is in the coordinator's current data, and its state is
\* "active" exactly when it is available, "inactive" otherwise.
C25_AvailableIffInData ==
  \A x \in LoadedSensors :
    LET e == x.config_entry_id
        in_data == \E i \in 1..Len(messages(data[e])) :
                      messages(data[e])[i].situationId = x.situation_id
    IN  /\ available(data[e], x.situation_id) <=> in_data
        /\ native_value(data[e], x.situation_id) \in {"active", "inactive"}
        /\ native_value(data[e], x.situation_id) = "active"
             <=> available(data[e], x.situation_id)

\* A later poll dropped the message of a loaded sensor: the sensor is
\* unavailable and inactive.
C25_Witness ==
  \E x \in LoadedSensors :
    LET e == x.config_entry_id
    IN  /\ pending[e]
        /\ lastCycle[e].ok
        /\ data[e].some
        /\ data[e].v # <<>>
        /\ \A i \in 1..Len(data[e].v) : data[e].v[i].situationId # x.situation_id
        /\ ~available(data[e], x.situation_id)
        /\ native_value(data[e], x.situation_id) = "inactive"

\* C23: after the camera platform's setup of the weathercam entry completes,
\* the registry holds no camera entity of the entry whose preset is not among
\* the entry's configured presets.
C23_NoCameraOfRemovedPreset ==
  camera_phase = "loaded"
  => \A r \in async_entries_for_config_entry(camera_registry, Weathercam) :
       \E p \in _get_expected_preset_ids(cameras) :
         r.unique_id = camera_unique_id(Weathercam, p)

\* The keys of the calls of this kind in a pass's calls.
KeysOf(calls, op) ==
  UNION {Range(calls[i].keys) : i \in {k \in 1..Len(calls) : calls[k].op = op}}

\* C24: within a reconcile pass every removal is issued before the adds, the
\* adds are issued in at most one async_add_entities call (none when there is
\* nothing to add, one holding every new entity otherwise), and the keys
\* removed are disjoint from the keys added.
C24_RemovalsThenOneBatchedAdd ==
  \A e \in Entries :
    LET calls == lastPass[e].calls
        adds == {i \in 1..Len(calls) : calls[i].op = "async_add_entities"}
        removals == {i \in 1..Len(calls) : calls[i].op = "async_remove"}
    IN  /\ \A i \in removals, j \in adds : i < j
        /\ Cardinality(adds) <= 1
        /\ lastPass[e].added = <<>> => adds = {}
        /\ (lastPass[e].added # <<>> /\ ~lastPass[e].raised)
             => \E j \in adds : calls[j].keys = lastPass[e].added
        /\ KeysOf(calls, "async_remove") \cap KeysOf(calls, "async_add_entities") = {}

\* A pass removed the stale key A1 and then added the new entity A2 in one
\* call.
C24_Witness ==
  \E e \in Entries :
    /\ ~lastPass[e].raised
    /\ lastPass[e].calls = << [op |-> "async_remove", keys |-> <<SidA1>>],
                              [op |-> "async_add_entities", keys |-> <<SidA2>>] >>

\* C26: once the options-update handler has completed, the coordinator's
\* municipalities and situation_types are the values the handler stored in
\* hass.data for the entry (the entry's new options), whatever they are.
C26_CoordinatorHoldsStoredOptions ==
  \A e \in Entries :
    (phase[e] = "loaded" /\ ~handler[e].some)
    => /\ municipalities[e] = options[e].municipalities
       /\ situation_types[e] = options[e].situation_types

\* C27: every published data set is consistent with one configuration
\* snapshot: a timer-driven cycle that publishes was fetched with the
\* situation types and is filtered with the municipalities of one and the
\* same configuration among those in force while it was in flight.
C27_OneConfigurationPerCycle ==
  [][\A e \in Entries :
       (timer[e].some /\ ~timer'[e].some /\ lastCycle'[e].ok)
       => \E c \in versions[e] :
            /\ fetch_active_messages(c.situation_types) = timer[e].v
            /\ c.municipalities = lastCycle'[e].municipalities]_vars

\* C28: when the options-update handler has completed, whether its refresh
\* succeeded or failed, every message of the published data satisfies the
\* coordinator's current municipality filter.
C28_PublishedSatisfiesCurrentFilter ==
  [][\A e \in Entries :
       (handler[e].some /\ ~handler'[e].some /\ municipalities'[e] # {})
       => \A i \in 1..Len(messages(data'[e])) :
            \E j \in 1..Len(messages(data'[e])[i].announcements) :
              \/ messages(data'[e])[i].announcements[j].primary \in municipalities'[e]
              \/ messages(data'[e])[i].announcements[j].secondary \in municipalities'[e]]_vars

\* C29: a reconcile pass hands async_add_entities at most one new sensor per
\* situation id, also when the data holds several features with the same
\* situationId, and never a sensor for a missing or empty situationId.
C29_OneNewSensorPerSituation ==
  \A e \in Entries :
    /\ \A i, j \in 1..Len(lastPass[e].added) :
         lastPass[e].added[i] = lastPass[e].added[j] => i = j
    /\ \A i \in 1..Len(lastPass[e].added) : lastPass[e].added[i] # SidMissing

\* The positions of the response's features that have an announcement in one
\* of the municipalities.
MatchingPositions(features, municipalities_) ==
  {i \in 1..Len(features) :
     \E j \in 1..Len(features[i].announcements) :
       \/ features[i].announcements[j].primary \in municipalities_
       \/ features[i].announcements[j].secondary \in municipalities_}

\* C30: with a non-empty municipality set the list a successful cycle
\* publishes is exactly the subsequence of the response's features that have
\* a matching announcement: every such feature, in response order, once.
C30_FilterCompleteAndOrdered ==
  \A e \in Entries :
    ( /\ phase[e] = "loaded"
      /\ lastCycle[e].done
      /\ lastCycle[e].ok
      /\ lastCycle[e].municipalities # {} )
    => LET features == lastCycle[e].resp.features
           matching == MatchingPositions(features, lastCycle[e].municipalities)
       IN  /\ data[e].some
           /\ Len(data[e].v) = Cardinality(matching)
           /\ \A k \in 1..Len(data[e].v) :
                \E i \in matching :
                  /\ Cardinality({m \in matching : m <= i}) = k
                  /\ data[e].v[k] = features[i]

\* A feature with two announcements in Helsinki was published once.
C30_Witness ==
  \E e \in Entries :
    /\ phase[e] = "loaded"
    /\ lastCycle[e].ok
    /\ lastCycle[e].municipalities = {"Helsinki"}
    /\ <<lastCycle[e].resp.features>> \in {<<l>> : l \in UpdatedLists}
    /\ data[e] = Some(lastCycle[e].resp.features)

\* C31: a camera's cached image and last_updated are set together:
\* last_updated is None exactly when no request of the camera has read a 200
\* response's body, and otherwise the cached image is the body of the most
\* recent request that did.
C31_ImageAndTimestampTogether ==
  \A p \in Presets :
    /\ last_updated[p] = 0 <=> lastGood[p] = NoneVal
    /\ last_updated[p] = 0 <=> last_image[p] = NoneVal
    /\ last_updated[p] # 0 => last_image[p] = lastGood[p]

\* One camera has met only a failure and holds nothing; another read jpegB
\* just now and holds it.
C31_Witness ==
  \E p, q \in Presets :
    /\ lastImage[q].bit
    /\ lastImage[q].resp.kind = "ClientError"
    /\ last_updated[q] = 0
    /\ last_image[q] = NoneVal
    /\ lastImage[p].resp.status = 200
    /\ last_image[p] = Some("jpegB")
    /\ last_updated[p] = now

C33_ActiveKeysAreRegisteredSensors ==
  [][\A e \in Entries :
       PassStep(e)
       => active_message_sensors'[e] =
            {CreatedFor(r.unique_id) : r \in async_entries_for_config_entry(registry', e)}]_vars

\* C34: setting up a traffic-message entry refreshes first: when the first
\* refresh fails nothing is stored, no platform is set up and no sensor is
\* created; when it succeeds the entry is stored with the fetched data and
\* the initial reconcile pass runs on that data.
C34_FirstRefreshBeforeSetup ==
  [][\A e \in Entries :
       (phase[e] = "new" /\ CycleEnds(e))
       => IF SomethingRaises(lastCycle'[e])
          THEN /\ phase'[e] = "new"
               /\ data'[e] = NoneVal
               /\ ~PassStep(e)
               /\ registry' = registry
               /\ entities' = entities
               /\ active_message_sensors' = active_message_sensors
          ELSE /\ phase'[e] = "loaded"
               /\ data'[e].some
               /\ PassStep(e)
               /\ lastCycle'[e].ok
               /\ Range(data'[e].v) \subseteq Range(lastCycle'[e].resp.features)
               /\ Range(lastPass'[e].added) \subseteq
                    {data'[e].v[i].situationId : i \in 1..Len(data'[e].v)}]_vars

\* A first refresh failed with the entry's earlier sensor still registered:
\* the entry is not loaded and has no data.
C34_Witness ==
  \E e \in Entries :
    /\ phase[e] = "new"
    /\ lastCycle[e].done
    /\ lastCycle[e].resp.kind = "error"
    /\ data[e] = NoneVal
    /\ now = 2
    /\ registry # {}
    /\ entities = {}

\* The step is a call of async_step_weathercam of flow f.
WeathercamStep(f) ==
  /\ flows[f].step \in {"user", "weathercam"}
  /\ flows'[f] # flows[f]
  /\ flows'[f].step # "traffic_messages"

\* The step is a submission of the naming form of flow f with service_name.
NameStep(f) ==
  /\ flows[f].step = "traffic_messages_name"
  /\ flows'[f] # flows[f] \/ config_entries' # config_entries

\* The traffic-message entries among entries, and an entry's effective
\* configuration (options over data, order of selection aside).
TrafficEntries(entries) ==
  {i \in 1..Len(entries) : entries[i].data.entity_type = ENTITY_TYPE_TRAFFIC_MESSAGES}
EffectiveConfiguration(entry) ==
  [municipalities |-> Range(IF entry.options.some THEN entry.options.v.municipalities
                            ELSE entry.data.municipalities),
   situation_types |-> Range(IF entry.options.some THEN entry.options.v.situation_types
                             ELSE entry.data.situation_types)]

\* C35: at most one weathercam config entry exists after any step of the
\* config flows, and a call of the weathercam step while one exists aborts
\* with single_instance_allowed and creates nothing.
C35_SingleWeathercamEntry ==
  [][/\ Len(existing_entries(config_entries')) <= 1
     /\ \A f \in FlowIds :
          (WeathercamStep(f) /\ existing_entries(config_entries) # <<>>)
          => /\ flows'[f].result = "abort"
             /\ flows'[f].reason = "single_instance_allowed"
             /\ config_entries' = config_entries]_vars

\* C36: after any step of the create, reconfigure and options flows no two
\* config entries have the same title, and a naming form submitted with a
\* title in use shows duplicate_name and creates no entry.
C36_TitlesUnique ==
  [][/\ \A i, j \in 1..Len(config_entries') :
          config_entries'[i].title = config_entries'[j].title => i = j
     /\ \A f \in FlowIds :
          (NameStep(f) /\ config_entries' = config_entries)
          => /\ flows'[f].reason = "duplicate_name"
             /\ flows'[f].step = "traffic_messages_name"]_vars

\* C37: after any step of the create, options and reconfigure flows no two
\* traffic-message entries have the same effective configuration, and the
\* create flow's form submitted with the configuration of an existing entry
\* shows duplicate_config and goes no further.
C37_EffectiveConfigurationsUnique ==
  [][/\ \A i, j \in TrafficEntries(config_entries') :
          EffectiveConfiguration(config_entries'[i]) = EffectiveConfiguration(config_entries'[j])
          => i = j
     /\ \A f \in FlowIds :
          (flows[f].step = "traffic_messages" /\ flows'[f].step = "traffic_messages_name")
          => \A i \in TrafficEntries(config_entries) :
               EffectiveConfiguration(config_entries[i])
                 # [municipalities |-> Range(flows'[f]._traffic_config.v.municipalities),
                    situation_types |-> Range(flows'[f]._traffic_config.v.situation_types)]]_vars
====
